---- MODULE Spec2Model ----
(***************************************************************************)
(* lavalink.js: the per-guild Player and the PlayerInstance manager.       *)
(*                                                                         *)
(* State: the manager's engine, its servers and its players map, each      *)
(* player's fields.  One action per public method or handler.  What an     *)
(* operation sends (to an audio server, to the chat gateway, to the        *)
(* player's listeners) is recorded, in order, in `out`, and how it ended   *)
(* in `last`; both describe the most recent operation only.                *)
(***************************************************************************)
EXTENDS Integers, Sequences, FiniteSets, TLC

VARIABLES engine, serversStorage, players, last, out

vars == <<engine, serversStorage, players, last, out>>

(***************************************************************************)
(* JavaScript values.  Numbers are rationals n/d (d = 1: an integer) so    *)
(* that a non-integer volume can be passed; undefined, null and booleans   *)
(* are tagged.  Strings are TLA+ strings; a missing string is Undefined.   *)
(***************************************************************************)
Undef == [kind |-> "undefined"]
Null == [kind |-> "null"]
Num(n, d) == [kind |-> "number", n |-> n, d |-> d]
Int_(n) == Num(n, 1)
Bool(b) == [kind |-> "boolean", b |-> b]
PlayerRef(g) == [kind |-> "player", guildID |-> g]
Undefined == "undefined"

Abs(n) == IF n < 0 THEN -n ELSE n

\* !x for the values a volume can be: undefined, or a number (0 is falsy)
Falsy(v) == v.kind = "undefined" \/ (v.kind = "number" /\ v.n = 0)

\* !Number(x): Number(undefined) is NaN, and NaN and 0 are falsy
NumberIsFalsy(v) == v.kind # "number" \/ v.n = 0

\* x < k and x > k for a number x = n/d and an integer k
Lt(v, k) == v.n < k * v.d
Gt(v, k) == v.n > k * v.d

\* parseInt(x) of a number: the integer part, truncated towards zero
parseInt(v) == IF v.n < 0 THEN -(Abs(v.n) \div v.d) ELSE v.n \div v.d

\* x % m !== 0 for a number x = n/d and an integer m; x % 0 is NaN, and NaN !== 0
RemNotZero(v, m) == IF m = 0 THEN TRUE ELSE (Abs(v.n) % (Abs(m) * v.d)) # 0

(***************************************************************************)
(* Program constants                                                       *)
(***************************************************************************)
DefaultVolume == 100
ForceVolume == 100
MinVolume == 0
MaxVolume == 1000
VoiceStateOp == 4

(***************************************************************************)
(* Bounds and input sets                                                   *)
(***************************************************************************)
\* how many guilds have a player at once
MaxPlayers == 1

Engines == {"discordjs", "eris"}
\* guild ids the callers use; the chat client knows (has cached) KnownGuilds only
GuildIDs == {"g1", "g2"}
KnownGuilds == {"g1"}
\* channel ids: a voice channel the client may join, a voice channel it may
\* connect to but not speak in, a text channel, and an id of no channel
ChannelIDs == {"vc", "mute", "txt", "gone"}
\* hosts: one registered audio server, one host nothing is registered at
Servers == {"h1"}
Hosts == {"h1", "h0"}
Tracks == {"t1"}
TrackInputs == Tracks \cup {Undefined, ""}
\* what Date.now() answers
Times == {1}
\* the calls of setVolume: <<volume, force>>
VolumeCalls ==
    {<<Undef, FALSE>>, <<Int_(-1), TRUE>>, <<Int_(0), FALSE>>, <<Int_(0), TRUE>>,
     <<Num(1, 2), TRUE>>, <<Num(3, 2), TRUE>>, <<Int_(100), FALSE>>,
     <<Int_(1000), FALSE>>, <<Int_(1000), TRUE>>, <<Int_(1001), TRUE>>}
Reasons == {"FINISHED", "REPLACED"}
EventTypes == {"TrackStartEvent", "TrackEndEvent", "TrackExceptionEvent",
               "TrackStuckEvent", "WebSocketClosedEvent"}
MessageOps == {Undefined, "event", "playerUpdate", "stats"}
PacketTypes == {"VOICE_SERVER_UPDATE", "VOICE_STATE_UPDATE"}
\* how many listeners the caller has registered for an event of a player
ListenerCounts == {0, 1}

(***************************************************************************)
(* The chat client (discord.js or eris), as far as the code reads it       *)
(***************************************************************************)
\* the channel object the client holds for (guild, channel id), in the
\* client library's own vocabulary; Undef when there is none
Channel(lib, g, c) ==
    IF g \notin KnownGuilds \/ c = "gone" THEN Undef
    ELSE [kind |-> "channel",
          type |-> IF c = "txt"
                   THEN (IF lib = "discordjs" THEN "text" ELSE "0")
                   ELSE (IF lib = "discordjs" THEN "voice" ELSE "2"),
          connect |-> TRUE,
          speak |-> (c = "vc")]

\* the client's voice session id in a guild
SessionID(g) == "session-" \o g

(***************************************************************************)
(* What an operation emits                                                 *)
(***************************************************************************)
\* LavalinkWebsocket.send(data): the command reaches the audio server at host
send(host, data) == [to |-> "server", host |-> host, data |-> data]

\* a packet handed to the chat gateway (client.ws.send, shard.send, shard.sendWS)
gatewaySend(packet) == [to |-> "gateway", packet |-> packet]

\* EventEmitter.emit(event, arg) on the player of a guild
emit(p, event, arg) ==
    [to |-> "listeners", guildID |-> p.guildID, call |-> "emit",
     event |-> event, arg |-> arg]

\* EventEmitter.removeAllListeners() on the player of a guild
removeAllListeners(p) ==
    [to |-> "listeners", guildID |-> p.guildID, call |-> "removeAllListeners"]

\* how a method ends: the player it leaves, what it emitted, what it returned
Return(p, o, ret) == [p |-> p, out |-> o, ret |-> ret, threw |-> FALSE]
Throw(p, o) == [p |-> p, out |-> o, ret |-> Undef, threw |-> TRUE]

(***************************************************************************)
(* class Player                                                            *)
(***************************************************************************)
Player(options) ==
    [guildID |-> options.guildID,
     channelID |-> options.channelID,
     server |-> options.server,
     queue |-> <<>>,
     currentTrack |-> Undefined,
     isPlaying |-> FALSE,
     isPaused |-> FALSE,
     state |-> [volume |-> Int_(DefaultVolume), equalizer |-> <<>>,
                time |-> Undef, position |-> Undef],
     startPlayingTimestamp |-> Null,
     \* properties the constructor does not create (eventEmitter assigns them)
     playing |-> Undef,
     track |-> Undef]

connect(p, packet) ==
    Return(p,
           <<send(p.server, [op |-> "voiceUpdate", guildId |-> p.guildID,
                             sessionId |-> packet.session, event |-> packet.event])>>,
           PlayerRef(p.guildID))

stop(p) ==
    Return([p EXCEPT !.isPlaying = FALSE, !.currentTrack = Undefined],
           <<send(p.server, [op |-> "stop", guildId |-> p.guildID])>>,
           PlayerRef(p.guildID))

disconnect(p, reason) ==
    LET s == stop(p)
    IN  Return([s.p EXCEPT !.isPlaying = FALSE],
               s.out \o <<emit(p, "disconnect", reason)>>,
               PlayerRef(p.guildID))

\* a play that records the track before it validates it
play_assignsBeforeCheck(p, track, now) ==
    IF track = Undefined \/ track = ""
    THEN Throw([p EXCEPT !.currentTrack = track], <<>>)
    ELSE Return([p EXCEPT !.currentTrack = track,
                          !.isPlaying = TRUE,
                          !.startPlayingTimestamp = Int_(now)],
                <<send(p.server, [op |-> "play", guildId |-> p.guildID,
                                  track |-> track])>>,
                PlayerRef(p.guildID))

play(p, track, now) ==
    IF track = Undefined \/ track = ""
    THEN Throw(p, <<>>)
    ELSE Return([p EXCEPT !.currentTrack = track,
                          !.isPlaying = TRUE,
                          !.startPlayingTimestamp = Int_(now)],
                <<send(p.server, [op |-> "play", guildId |-> p.guildID,
                                  track |-> track])>>,
                PlayerRef(p.guildID))

pause(p, paused) ==
    Return([p EXCEPT !.isPaused = paused, !.isPlaying = ~(~paused)],
           <<send(p.server, [op |-> "pause", guildId |-> p.guildID,
                             pause |-> paused])>>,
           PlayerRef(p.guildID))

resume(p) ==
    LET r == pause(p, FALSE) IN Return(r.p, r.out, Undef)

skip(p) ==
    LET r == stop(p) IN Return(r.p, r.out, Undef)

\* a setVolume whose range check has lost its upper limit
setVolume_noUpperLimit(p, volume, force) ==
    IF Falsy(volume) THEN Throw(p, <<>>)
    ELSE IF NumberIsFalsy(volume) \/ RemNotZero(volume, parseInt(volume))
         THEN Throw(p, <<>>)
    ELSE IF Lt(volume, MinVolume) THEN Throw(p, <<>>)
    ELSE IF Gt(volume, ForceVolume) /\ ~force THEN Throw(p, <<>>)
    ELSE Return([p EXCEPT !.state.volume = volume],
                <<send(p.server, [op |-> "volume", guildId |-> p.guildID,
                                  volume |-> volume])>>,
                PlayerRef(p.guildID))

setVolume(p, volume, force) ==
    IF Falsy(volume) THEN Throw(p, <<>>)
    ELSE IF NumberIsFalsy(volume) \/ RemNotZero(volume, parseInt(volume))
         THEN Throw(p, <<>>)
    ELSE IF Lt(volume, MinVolume) \/ Gt(volume, MaxVolume) THEN Throw(p, <<>>)
    ELSE IF Gt(volume, ForceVolume) /\ ~force THEN Throw(p, <<>>)
    ELSE Return([p EXCEPT !.state.volume = volume],
                <<send(p.server, [op |-> "volume", guildId |-> p.guildID,
                                  volume |-> volume])>>,
                PlayerRef(p.guildID))

destroy(p) ==
    Return(p, <<send(p.server, [op |-> "destroy", guildId |-> p.guildID])>>,
           PlayerRef(p.guildID))

\* errorListeners: what this.listenerCount('error') answers
eventEmitter(p, message, errorListeners) ==
    CASE message.type = "TrackStartEvent" ->
            Return(p, <<emit(p, "trackStart", Undef)>>, Undef)
      [] message.type = "TrackEndEvent" ->
            Return(IF message.reason # "REPLACED"
                   THEN [p EXCEPT !.playing = Bool(FALSE), !.track = Null]
                   ELSE p,
                   <<emit(p, "trackEnd", message)>>, Undef)
      [] message.type = "TrackExceptionEvent" ->
            IF errorListeners # 0
            THEN Return(p, <<emit(p, "error", message)>>, Undef)
            ELSE Return(p, <<>>, Undef)
      [] message.type = "TrackStuckEvent" ->
            LET s == stop(p)
            IN  Return(s.p, s.out \o <<emit(p, "trackEnd", message)>>, Undef)
      [] OTHER -> Return(p, <<>>, Undef)

(***************************************************************************)
(* class PlayerInstance                                                    *)
(***************************************************************************)
\* client.guilds.cache is discord.js's; client.guilds.get is eris's: the client
\* handed to the constructor is the library's that `engine` names
HasGuildsCache == engine = "discordjs"
HasGuildsGet == engine = "eris"

\* typeof this.client.ws.send === 'function': the discord.js whose guilds.cache
\* the code reads (version 12) has no WebSocketManager.send
wsSendIsFunction == FALSE

Put(ps, g, p) == [k \in DOMAIN ps \cup {g} |-> IF k = g THEN p ELSE ps[k]]
\* a delete that removes nothing
Delete_keepsEntry(ps, g) == ps

Delete(ps, g) == [k \in DOMAIN ps \ {g} |-> ps[k]]

\* how a manager method ends: the players map it leaves, what it emitted, what
\* it returned, and which engine's channel checks it ran
End(ps, o, ret, threw, checks) ==
    [players |-> ps, out |-> o, ret |-> ret, threw |-> threw, checks |-> checks]

sendWS(packet) ==
    CASE engine = "discordjs" ->
            IF wsSendIsFunction \/ packet.d.guild_id \in KnownGuilds
            THEN [out |-> <<gatewaySend(packet)>>, threw |-> FALSE]
            ELSE [out |-> <<>>, threw |-> TRUE]
      [] engine = "eris" ->
            IF packet.d.guild_id \in KnownGuilds
            THEN [out |-> <<gatewaySend(packet)>>, threw |-> FALSE]
            ELSE [out |-> <<>>, threw |-> TRUE]

returnPlayer(ps, options) ==
    IF options.guildID \in DOMAIN ps
    THEN End(ps, <<>>, PlayerRef(options.guildID), FALSE, <<>>)
    ELSE IF options.host \notin serversStorage
         THEN End(ps, <<>>, Undef, TRUE, <<>>)
         ELSE End(Put(ps, options.guildID,
                      Player([server |-> options.host,
                              guildID |-> options.guildID,
                              channelID |-> options.channelID])),
                  <<>>, PlayerRef(options.guildID), FALSE, <<>>)

\* case 'discordjs' of join's switch: TRUE when one of its lines throws
discordjsCheck(options) ==
    LET channel == Channel("discordjs", options.guildID, options.channelID)
    IN  \/ ~HasGuildsCache
        \/ options.guildID \notin KnownGuilds
        \/ channel = Undef
        \/ channel.type # "voice"
        \/ ~channel.connect
        \/ ~channel.speak

\* case 'eris' of join's switch: TRUE when one of its lines throws
erisCheck(options) ==
    LET channel == Channel("eris", options.guildID, options.channelID)
    IN  \/ ~HasGuildsGet
        \/ options.guildID \notin KnownGuilds
        \/ channel = Undef
        \/ channel.type # "2"
        \/ ~channel.connect
        \/ ~channel.speak

\* the switch on this.engine in join: the checks it ran, and whether one threw.
\* case 'discordjs' has no break, so control runs on into case 'eris'
engineSwitch(options) ==
    CASE engine = "discordjs" ->
            IF discordjsCheck(options)
            THEN [checks |-> <<"discordjs">>, threw |-> TRUE]
            ELSE [checks |-> <<"discordjs", "eris">>, threw |-> erisCheck(options)]
      [] engine = "eris" ->
            [checks |-> <<"eris">>, threw |-> erisCheck(options)]

\* a join that does not look for the guild's player first
join_noPlayerLookup(ps, options) ==
    IF options = Undef THEN End(ps, <<>>, Undef, TRUE, <<>>)
    ELSE LET sw == engineSwitch(options)
             ws == sendWS([op |-> VoiceStateOp,
                           d |-> [guild_id |-> options.guildID,
                                  channel_id |-> options.channelID,
                                  self_mute |-> options.muted,
                                  self_deaf |-> options.deafen]])
             rp == returnPlayer(ps, [host |-> options.host,
                                     guildID |-> options.guildID,
                                     channelID |-> options.channelID])
         IN  IF sw.threw THEN End(ps, <<>>, Undef, TRUE, sw.checks)
             ELSE IF ws.threw THEN End(ps, ws.out, Undef, TRUE, sw.checks)
             ELSE End(rp.players, ws.out \o rp.out, rp.ret, rp.threw, sw.checks)

join(ps, options) ==
    IF options = Undef THEN End(ps, <<>>, Undef, TRUE, <<>>)
    ELSE IF options.guildID \in DOMAIN ps
    THEN End(ps, <<>>, PlayerRef(options.guildID), FALSE, <<>>)
    ELSE LET sw == engineSwitch(options)
             ws == sendWS([op |-> VoiceStateOp,
                           d |-> [guild_id |-> options.guildID,
                                  channel_id |-> options.channelID,
                                  self_mute |-> options.muted,
                                  self_deaf |-> options.deafen]])
             rp == returnPlayer(ps, [host |-> options.host,
                                     guildID |-> options.guildID,
                                     channelID |-> options.channelID])
         IN  IF sw.threw THEN End(ps, <<>>, Undef, TRUE, sw.checks)
             ELSE IF ws.threw THEN End(ps, ws.out, Undef, TRUE, sw.checks)
             ELSE End(rp.players, ws.out \o rp.out, rp.ret, rp.threw, sw.checks)

leave(ps, guildID) ==
    IF guildID = Undefined THEN End(ps, <<>>, Undef, TRUE, <<>>)
    ELSE LET ws == sendWS([op |-> VoiceStateOp,
                           d |-> [guild_id |-> guildID,
                                  channel_id |-> Null,
                                  self_mute |-> Bool(FALSE),
                                  self_deaf |-> Bool(FALSE)]])
         IN  IF ws.threw THEN End(ps, ws.out, Undef, TRUE, <<>>)
             ELSE IF guildID \notin DOMAIN ps
             THEN End(ps, ws.out, Bool(FALSE), FALSE, <<>>)
             ELSE LET player == ps[guildID]
                      s == stop(player)
                      d == destroy(s.p)
                  IN  End(Delete(ps, guildID),
                          ws.out \o <<removeAllListeners(player)>> \o s.out \o d.out,
                          Bool(TRUE), FALSE, <<>>)

\* a voiceServerUpdate that does not look the guild up in the client
voiceServerUpdate_noGuildLookup(ps, packet) ==
    IF packet.guild_id \notin DOMAIN ps THEN End(ps, <<>>, Undef, FALSE, <<>>)
    ELSE LET c == connect(ps[packet.guild_id],
                          [session |-> SessionID(packet.guild_id), event |-> packet])
         IN  End(Put(ps, packet.guild_id, c.p), c.out, Undef, FALSE, <<>>)

voiceServerUpdate(ps, packet) ==
    IF packet.guild_id \notin DOMAIN ps THEN End(ps, <<>>, Undef, FALSE, <<>>)
    ELSE IF packet.guild_id \notin KnownGuilds THEN End(ps, <<>>, Undef, FALSE, <<>>)
    ELSE LET c == connect(ps[packet.guild_id],
                          [session |-> SessionID(packet.guild_id), event |-> packet])
         IN  End(Put(ps, packet.guild_id, c.p), c.out, Undef, FALSE, <<>>)

\* the listener the constructor registers on the client's 'raw' / 'rawWS' event
onRaw(ps, packet) ==
    IF packet.t = "VOICE_SERVER_UPDATE"
    THEN voiceServerUpdate(ps, packet.d)
    ELSE End(ps, <<>>, Undef, FALSE, <<>>)

\* the listener createServer registers on a server's 'message' event
onMessage(ps, message, errorListeners) ==
    IF message = Undef \/ message.op = Undefined
    THEN End(ps, <<>>, Undef, FALSE, <<>>)
    ELSE IF message.guildId \notin DOMAIN ps
    THEN End(ps, <<>>, Undef, FALSE, <<>>)
    ELSE LET player == ps[message.guildId]
         IN  CASE message.op = "event" ->
                    LET e == eventEmitter(player, message, errorListeners)
                    IN  End(Put(ps, message.guildId, e.p), e.out, Undef, FALSE, <<>>)
               [] message.op = "playerUpdate" ->
                    End(Put(ps, message.guildId,
                            [player EXCEPT !.state.time = message.state.time,
                                           !.state.position = message.state.position]),
                        <<>>, Undef, FALSE, <<>>)
               [] OTHER -> End(ps, <<>>, Undef, FALSE, <<>>)

(***************************************************************************)
(* index.js, the entry point of the package                                *)
(***************************************************************************)
\* the two chat libraries, and what node_modules can hold of them
Libraries == {"discord.js", "eris"}
InstalledSets == SUBSET Libraries

\* the values a load can produce: a loaded module, or a thrown Error
Module(name) == [kind |-> "module", name |-> name]
Error(code, message) == [kind |-> "error", code |-> code, message |-> message]
ChooseOneLibrary ==
    "You can't have Discord.js and Eris installed. Please choose one library only."

\* require(name) of a package: its module when node_modules holds it, and
\* otherwise Node throws "Cannot find module '<name>'"
require(installed, name) ==
    IF name \in installed
    THEN [threw |-> FALSE, value |-> Module(name)]
    ELSE [threw |-> TRUE, value |-> Error("MODULE_NOT_FOUND", name)]

\* what module.exports holds once the file ran to its end
exports ==
    [LavalinkWebsocket |-> Module("./src/LavalinkWebsocket"),
     PlayerInstance |-> Module("./src/PlayerInstance"),
     Player |-> Module("./src/Player"),
     request |-> Module("./src/request"),
     version |-> Module("./package")]

\* the file, top to bottom: a && b evaluates b only when a returned and is
\* truthy, and a module object is truthy
index(installed) ==
    LET discordjs == require(installed, "discord.js")
        eris == require(installed, "eris")
    IN  IF discordjs.threw THEN [threw |-> TRUE, ret |-> discordjs.value]
        ELSE IF Falsy(discordjs.value) THEN [threw |-> FALSE, ret |-> exports]
        ELSE IF eris.threw THEN [threw |-> TRUE, ret |-> eris.value]
        ELSE IF Falsy(eris.value) THEN [threw |-> FALSE, ret |-> exports]
        ELSE [threw |-> TRUE, ret |-> Error("Error", ChooseOneLibrary)]

(***************************************************************************)
(* The state machine                                                       *)
(***************************************************************************)
\* every channel at the registered host, and the joinable channel at the other
JoinOptions ==
    {Undef} \cup
    {o \in [host : Hosts, guildID : GuildIDs, channelID : ChannelIDs,
            muted : {Bool(TRUE)}, deafen : {Undef}] :
        o.host \in Servers \/ o.channelID = "vc"}
ReturnPlayerOptions == [host : Hosts, guildID : GuildIDs, channelID : {"vc"}]
RawPackets ==
    [t : PacketTypes,
     d : [guild_id : GuildIDs, token : {"tok"}, endpoint : {"ep"}]]
\* a message carries the fields its op defines; the others are Undefined
Messages ==
    {Undef} \cup
    {m \in [op : MessageOps, guildId : GuildIDs,
            type : EventTypes \cup {Undefined}, reason : Reasons \cup {Undefined},
            state : {Undef, [time |-> Int_(1), position |-> Int_(0)]}] :
        /\ (m.type # Undefined) = (m.op = "event")
        /\ (m.reason # Undefined) = (m.type = "TrackEndEvent")
        /\ (m.state # Undef) = (m.op = "playerUpdate")}

Init ==
    /\ engine \in Engines
    /\ serversStorage = Servers
    /\ players = [g \in {} |-> Undef]
    /\ last = [op |-> "constructor", guild |-> Undefined, threw |-> FALSE,
               ret |-> Undef, checks |-> <<>>]
    /\ out = <<>>

\* a method of the manager ran to its end
Manager(opname, g, r) ==
    /\ players' = r.players
    /\ out' = r.out
    /\ last' = [op |-> opname, guild |-> g, threw |-> r.threw, ret |-> r.ret,
                checks |-> r.checks]
    /\ UNCHANGED <<engine, serversStorage>>

\* a method of the player of guild g ran to its end
Method(opname, g, r) ==
    /\ players' = [players EXCEPT ![g] = r.p]
    /\ out' = r.out
    /\ last' = [op |-> opname, guild |-> g, threw |-> r.threw, ret |-> r.ret,
                checks |-> <<>>]
    /\ UNCHANGED <<engine, serversStorage>>

Join(options) ==
    /\ Cardinality(DOMAIN join(players, options).players) <= MaxPlayers
    /\ Manager("join", IF options = Undef THEN Undefined ELSE options.guildID,
            join(players, options))

Leave(guildID) == Manager("leave", guildID, leave(players, guildID))

ReturnPlayer(options) ==
    /\ Cardinality(DOMAIN returnPlayer(players, options).players) <= MaxPlayers
    /\ Manager("returnPlayer", options.guildID, returnPlayer(players, options))

Raw(packet) == Manager("raw", packet.d.guild_id, onRaw(players, packet))

Message(message, errorListeners) ==
    Manager("message", IF message = Undef THEN Undefined ELSE message.guildId,
            onMessage(players, message, errorListeners))

Connect(g, packet) ==
    /\ g \in DOMAIN players
    /\ Method("connect", g, connect(players[g], packet))

Disconnect(g, reason) ==
    /\ g \in DOMAIN players
    /\ Method("disconnect", g, disconnect(players[g], reason))

Play(g, track, now) ==
    /\ g \in DOMAIN players
    /\ Method("play", g, play(players[g], track, now))

Stop(g) ==
    /\ g \in DOMAIN players
    /\ Method("stop", g, stop(players[g]))

Pause(g, paused) ==
    /\ g \in DOMAIN players
    /\ Method("pause", g, pause(players[g], paused))

Resume(g) ==
    /\ g \in DOMAIN players
    /\ Method("resume", g, resume(players[g]))

Skip(g) ==
    /\ g \in DOMAIN players
    /\ Method("skip", g, skip(players[g]))

SetVolume(g, volume, force) ==
    /\ g \in DOMAIN players
    /\ Method("setVolume", g, setVolume(players[g], volume, force))

Destroy(g) ==
    /\ g \in DOMAIN players
    /\ Method("destroy", g, destroy(players[g]))

\* require('lavalink.js'): the entry point is evaluated; a load that threw is
\* not cached, so the next require evaluates the file again
Require(installed) ==
    LET r == index(installed)
    IN  Manager("require", Undefined, End(players, <<>>, r.ret, r.threw, <<>>))

Next ==
    \/ \E options \in JoinOptions : Join(options)
    \/ \E guildID \in GuildIDs \cup {Undefined} : Leave(guildID)
    \/ \E options \in ReturnPlayerOptions : ReturnPlayer(options)
    \/ \E packet \in RawPackets : Raw(packet)
    \/ \E message \in Messages, errorListeners \in ListenerCounts :
          \* the count is read for a TrackExceptionEvent only
          /\ errorListeners = 0 \/ (message # Undef /\ message.type = "TrackExceptionEvent")
          /\ Message(message, errorListeners)
    \/ \E g \in GuildIDs :
          Connect(g, [session |-> SessionID(g),
                      event |-> [guild_id |-> g, token |-> "tok", endpoint |-> "ep"]])
    \/ \E g \in GuildIDs : Disconnect(g, "bye")
    \/ \E g \in GuildIDs, track \in TrackInputs, now \in Times : Play(g, track, now)
    \/ \E g \in GuildIDs : Stop(g)
    \/ \E g \in GuildIDs, paused \in BOOLEAN : Pause(g, paused)
    \/ \E g \in GuildIDs : Resume(g)
    \/ \E g \in GuildIDs : Skip(g)
    \/ \E g \in GuildIDs, call \in VolumeCalls : SetVolume(g, call[1], call[2])
    \/ \E g \in GuildIDs : Destroy(g)
    \/ \E installed \in InstalledSets : Require(installed)

Spec == Init /\ [][Next]_vars

(***************************************************************************)
(* Vocabulary of the properties                                            *)
(***************************************************************************)
IsInteger(v) == v.kind = "number" /\ v.n % v.d = 0
InRange(v, lo, hi) == v.kind = "number" /\ lo * v.d <= v.n /\ v.n <= hi * v.d

\* the commands an operation sent to audio servers, in order
ToServers(o) == SelectSeq(o, LAMBDA e : e.to = "server")
\* the packets an operation handed to the chat gateway, in order
ToGateway(o) == SelectSeq(o, LAMBDA e : e.to = "gateway")
\* the events an operation emitted to a player's listeners, in order
Emitted(o) == SelectSeq(o, LAMBDA e : e.to = "listeners" /\ e.call = "emit")

CommandOps == {"play", "stop", "pause", "setVolume", "destroy"}
ChainableOps == {"connect", "disconnect", "play", "stop", "pause", "resume",
                 "skip", "setVolume", "destroy"}

C2_SetVolumeSucceeds ==
    [][last'.op = "setVolume" =>
        \A call \in VolumeCalls :
          LET v == call[1]
              force == call[2]
          IN
          (/\ IsInteger(v)
           /\ InRange(v, 0, 100) \/ (InRange(v, 101, 1000) /\ force)
           /\ SetVolume(last'.guild, v, force))
          => /\ ~last'.threw
             /\ out' = <<[to |-> "server", host |-> players[last'.guild].server,
                          data |-> [op |-> "volume", guildId |-> last'.guild,
                                    volume |-> v]]>>
             /\ players'[last'.guild].state.volume = v
             /\ last'.ret = PlayerRef(last'.guild)]_vars

\* C3: setVolume with a missing, non-integer, negative or too large volume, or
\* one above 100 without force, throws, sends nothing and changes nothing; the
\* volume of every player is an integer in 0..1000
C3_SetVolumeRejects ==
    /\ [](\A g \in DOMAIN players :
            /\ IsInteger(players[g].state.volume)
            /\ InRange(players[g].state.volume, 0, 1000))
    /\ [][last'.op = "setVolume" =>
            \* either the step is a rejection, or no rejected call makes it
            \/ last'.threw /\ out' = <<>> /\ players' = players
            \/ \A call \in VolumeCalls :
                  LET v == call[1]
                      force == call[2]
                  IN  ~ /\ \/ v.kind = "undefined"
                           \/ ~IsInteger(v)
                           \/ Lt(v, 0)
                           \/ Gt(v, 1000)
                           \/ (Gt(v, 100) /\ ~force)
                        /\ SetVolume(last'.guild, v, force)]_vars

C3_Witness ==
    /\ last.op = "setVolume" /\ last.threw /\ out = <<>>
    /\ players[last.guild].state.volume = Int_(1000)

\* C4: with engine 'discordjs' a join to a voice channel the client may connect
\* to and speak in runs the discord.js checks only, sends one op 4 packet for
\* the guild and channel and returns the guild's player; with engine 'eris'
\* only the eris checks run
C4_JoinPerEngine ==
    [][last'.op = "join" =>
        \A options \in JoinOptions \ {Undef} :
          (/\ options.guildID \notin DOMAIN players
           /\ options.host \in serversStorage
           /\ Channel(engine, options.guildID, options.channelID) # Undef
           /\ Channel(engine, options.guildID, options.channelID).type
                 = (IF engine = "discordjs" THEN "voice" ELSE "2")
           /\ Channel(engine, options.guildID, options.channelID).connect
           /\ Channel(engine, options.guildID, options.channelID).speak
           /\ Join(options))
          => /\ last'.checks = <<engine>>
             /\ ~last'.threw
             /\ Len(out') = 1
             /\ out'[1].to = "gateway"
             /\ out'[1].packet.op = 4
             /\ out'[1].packet.d.guild_id = options.guildID
             /\ out'[1].packet.d.channel_id = options.channelID
             /\ last'.ret = PlayerRef(options.guildID)
             /\ options.guildID \in DOMAIN players']_vars

\* C5: join for a guild that has a player returns that player, sends no op 4
\* packet and creates nothing; every entry of the players map is the player of
\* the guild it is stored under
C5_JoinIdempotent ==
    /\ [](\A g \in DOMAIN players : players[g].guildID = g)
    /\ [][(last'.op = "join" /\ last'.guild \in DOMAIN players) =>
            \* either the step returns the guild's player and does nothing
            \* else, or no join for a guild that has a player makes it
            \/ /\ ~last'.threw
               /\ last'.ret = PlayerRef(last'.guild)
               /\ out' = <<>>
               /\ players' = players
            \/ \A options \in JoinOptions \ {Undef} :
                  ~(options.guildID = last'.guild /\ Join(options))]_vars

C5_Witness ==
    /\ last.op = "join" /\ ~last.threw
    /\ out = <<>>
    /\ last.guild \in DOMAIN players
    /\ last.ret = PlayerRef(last.guild)

\* C6: a TrackEndEvent routed to a player emits 'trackEnd' once; unless its
\* reason is 'REPLACED' the player is afterwards not playing and has no
\* current track, and with 'REPLACED' both are left as they were
C6_TrackEnd ==
    [][last'.op = "message" =>
        \A m \in Messages \ {Undef}, n \in ListenerCounts :
          (/\ m.op = "event"
           /\ m.type = "TrackEndEvent"
           /\ m.guildId \in DOMAIN players
           /\ Message(m, n))
          => /\ Len(Emitted(out')) = 1
             /\ Emitted(out')[1].event = "trackEnd"
             /\ IF m.reason # "REPLACED"
                THEN /\ players'[m.guildId].isPlaying = FALSE
                     /\ players'[m.guildId].currentTrack = Undefined
                ELSE /\ players'[m.guildId].isPlaying = players[m.guildId].isPlaying
                     /\ players'[m.guildId].currentTrack
                           = players[m.guildId].currentTrack]_vars

\* C7: pause(true) leaves the player paused and not playing; pause(false) and
\* resume() on a paused player with a current track leave it playing and not
\* paused; each sends one 'pause' command carrying the flag for the guild
C7_Pause ==
    [][last'.op \in {"pause", "resume"} =>
        LET g == last'.guild
        IN  /\ Pause(g, TRUE)
                => /\ players'[g].isPaused = TRUE
                   /\ players'[g].isPlaying = FALSE
                   /\ out' = <<[to |-> "server", host |-> players[g].server,
                                data |-> [op |-> "pause", guildId |-> g,
                                          pause |-> TRUE]]>>
            /\ (/\ Pause(g, FALSE) \/ Resume(g)
                /\ players[g].isPaused
                /\ players[g].currentTrack # Undefined)
                => /\ players'[g].isPaused = FALSE
                   /\ players'[g].isPlaying = TRUE
                   /\ out' = <<[to |-> "server", host |-> players[g].server,
                                data |-> [op |-> "pause", guildId |-> g,
                                          pause |-> FALSE]]>>]_vars

\* C8: connect, disconnect, play, stop, pause, resume, skip, setVolume and
\* destroy return the player they were called on when they do not throw
C8_Chainable ==
    (last.op \in ChainableOps /\ ~last.threw) => last.ret = PlayerRef(last.guild)

\* C9: a VOICE_SERVER_UPDATE packet for guild g is relayed as one 'voiceUpdate'
\* command (g, the client's session id, the packet) to the server of g's player
\* when g has a player and the client knows the guild; otherwise nothing is
\* sent and nothing changes
C9_VoiceServerUpdate ==
    [][last'.op = "raw" =>
        \A packet \in RawPackets :
          (packet.t = "VOICE_SERVER_UPDATE" /\ Raw(packet))
          => LET g == packet.d.guild_id
             IN  /\ players' = players
                 /\ IF g \in DOMAIN players /\ g \in KnownGuilds
                    THEN out' = <<[to |-> "server", host |-> players[g].server,
                                   data |-> [op |-> "voiceUpdate", guildId |-> g,
                                             sessionId |-> SessionID(g),
                                             event |-> packet.d]]>>
                    ELSE out' = <<>>]_vars

C9_Witness ==
    /\ last.op = "raw"
    /\ Len(out) = 1
    /\ out[1].to = "server"
    /\ out[1].data.op = "voiceUpdate"
    /\ out[1].data.guildId = last.guild

\* C10: play with a missing or empty track throws, sends nothing and changes
\* nothing; with a track it sends one 'play' command carrying the track and
\* the guild id and leaves currentTrack = track and isPlaying = true; stop
\* sends one 'stop' command and leaves isPlaying = false and no current track
C10_PlayStop ==
    [][last'.op \in {"play", "stop"} =>
        LET g == last'.guild
        IN  /\ \A track \in TrackInputs, now \in Times :
                Play(g, track, now)
                => IF track = Undefined \/ track = ""
                   THEN last'.threw /\ out' = <<>> /\ players' = players
                   ELSE /\ ~last'.threw
                        /\ out' = <<[to |-> "server", host |-> players[g].server,
                                     data |-> [op |-> "play", guildId |-> g,
                                               track |-> track]]>>
                        /\ players'[g].currentTrack = track
                        /\ players'[g].isPlaying = TRUE
            /\ Stop(g)
                => /\ out' = <<[to |-> "server", host |-> players[g].server,
                                data |-> [op |-> "stop", guildId |-> g]]>>
                   /\ players'[g].isPlaying = FALSE
                   /\ players'[g].currentTrack = Undefined]_vars

C10_Witness ==
    /\ last.op = "play" /\ last.threw /\ out = <<>>
    /\ players[last.guild].currentTrack \in Tracks
    /\ players[last.guild].isPlaying
    /\ players[last.guild].startPlayingTimestamp # Null

\* C11: loading the entry point with exactly one of discord.js and eris
\* installed succeeds and exports LavalinkWebsocket, PlayerInstance, Player,
\* request and version; the 'choose one library only' error is thrown only
\* when both are installed
C11_EntryPoint ==
    [][last'.op = "require" =>
        \A installed \in InstalledSets :
            Require(installed)
            => /\ Cardinality(installed) = 1
                    => /\ ~last'.threw
                       /\ DOMAIN last'.ret = {"LavalinkWebsocket", "PlayerInstance",
                                              "Player", "request", "version"}
               /\ last'.ret = Error("Error", ChooseOneLibrary)
                    => installed = Libraries]_vars

\* C12: leave(g) on a guild with a player emits, in this order, one op 4
\* packet with channel_id null to the gateway, one 'stop' and then one
\* 'destroy' command to the player's server, removes all the player's
\* listeners, deletes players[g] and returns true; on a guild without a
\* player it sends the op 4 packet only and returns false; with a missing
\* guild id it throws before sending anything
C12_Leave ==
    [][last'.op = "leave" =>
        LET g == last'.guild
            packet == gatewaySend([op |-> VoiceStateOp,
                                   d |-> [guild_id |-> g, channel_id |-> Null,
                                          self_mute |-> Bool(FALSE),
                                          self_deaf |-> Bool(FALSE)]])
        IN  IF g = Undefined
            THEN last'.threw /\ out' = <<>> /\ players' = players
            ELSE IF g \in DOMAIN players
            THEN /\ ~last'.threw
                 /\ last'.ret = Bool(TRUE)
                 /\ Len(out') = 4
                 /\ out'[1] = packet
                 /\ ToGateway(out') = <<packet>>
                 /\ ToServers(out')
                      = <<send(players[g].server, [op |-> "stop", guildId |-> g]),
                          send(players[g].server, [op |-> "destroy", guildId |-> g])>>
                 /\ \E i \in 1..Len(out') : out'[i] = removeAllListeners(players[g])
                 /\ g \notin DOMAIN players'
            ELSE /\ ~last'.threw
                 /\ last'.ret = Bool(FALSE)
                 /\ out' = <<packet>>
                 /\ players' = players]_vars

\* C13: a join that throws (invalid options, channel not found or not a voice
\* channel, missing permissions, no audio server registered at options.host)
\* has sent no op 4 packet to the gateway and has created no player
C13_FailingJoin ==
    [][(last'.op = "join" /\ last'.threw)
        => /\ ToGateway(out') = <<>>
           /\ DOMAIN players' = DOMAIN players]_vars

====
